---- MODULE Spec2Model ----
(***************************************************************************)
(* pytups.superdict.SuperDict: a dict subclass with nested-update,        *)
(* nested-set, nested-get, tuple-key expansion/flattening, filtering and  *)
(* list inversion.                                                         *)
(*                                                                         *)
(* Python objects live in a heap (a sequence of dict objects addressed by  *)
(* their index), so that identity, in-place mutation and aliasing are      *)
(* visible.  A dict object has a class ("SuperDict" or the builtin "dict") *)
(* and items, a function from scalar keys to values; a value is a scalar   *)
(* leaf, a reference to a heap object, or None.                            *)
(***************************************************************************)
EXTENDS Integers, Sequences, FiniteSets, TLC

VARIABLES
    heap,   \* Seq of dict objects [cls, items]
    recv,   \* heap index of the mapping the next method is called on
    ops,    \* the calls made so far, each a record (see Call)
    pre,    \* the heap as it was before the last call
    ret,    \* the value the last call returned
    err,    \* the exception the last call raised, "" if none
    a0,     \* deep value of the receiver at construction
    args,   \* heap indices of the mappings passed as arguments so far
    snaps,  \* their deep values at the time they were passed
    m,      \* flat input mapping: Seq of entries [k, v] in insertion order
    q,      \* the arguments of the last filter call
    out,    \* the flat mapping a flat operation returned, a function of its keys
    listed  \* the keys the KeyError of the last call names

vars == <<heap, recv, ops, pre, ret, err, a0, args, snaps, m, q, out, listed>>

-----------------------------------------------------------------------------
(* Bounds *)

MaxEntries == 3     \* entries (over all levels) of an argument mapping
MaxSelfEntries == 2 \* entries (over all levels) of the receiver of a single call
MaxSeqSelf == 0     \* entries of the receiver a sequence of calls starts from
MaxPath == 2        \* path keys of a set_m / get_m call
MaxOps == 2         \* calls of a sequence of calls
MaxFlat == 2        \* entries of a flat mapping
MaxTupLen == 2      \* elements of a tuple key
MaxIdx == 2         \* keys requested of filter
MaxList == 2        \* elements of a list value

-----------------------------------------------------------------------------
(* Values *)

\* Scalar keys: a string is the sequence of its characters, a number is itself.
Str(s) == [ty |-> "str", s |-> s, n |-> 0]
Num(n) == [ty |-> "int", s |-> <<>>, n |-> n]

Leaf(n) == [t |-> "leaf", v |-> n]
Ref(i) == [t |-> "ref", v |-> i]
NoneV == [t |-> "none", v |-> 0]

Empty == [k \in {} |-> NoneV]

Put(f, k, v) == [x \in (DOMAIN f) \cup {k} |-> IF x = k THEN v ELSE f[x]]

Overlay(f, g) == [x \in (DOMAIN f) \cup (DOMAIN g) |-> IF x \in DOMAIN g THEN g[x] ELSE f[x]]

SetItem(h, id, k, v) == [h EXCEPT ![id].items = Put(@, k, v)]

\* isinstance(v, dict)
IsDict(h, v) == v.t = "ref"

\* isinstance(v, SuperDict)
IsSuperDict(h, v) == v.t = "ref" /\ h[v.v].cls = "SuperDict"

PickKey(S) == CHOOSE k \in S : TRUE

\* The deep value of v: nested mappings by content, classes and identities dropped
\* (Python's == on dicts).
RECURSIVE Deep(_, _)
Deep(h, v) ==
    IF v.t = "ref"
    THEN [t |-> "map", items |-> [k \in DOMAIN h[v.v].items |-> Deep(h, h[v.v].items[k])]]
    ELSE v

-----------------------------------------------------------------------------
(* Input mappings: nested dict literals over Keys, by number of entries *)

Keys == {Str(<<"x">>), Str(<<"y">>)}

RECURSIVE Size(_)
Size(tr) ==
    IF tr.t # "map" THEN 0
    ELSE LET RECURSIVE Sum(_)
             Sum(ks) == IF ks = {} THEN 0
                        ELSE LET k == PickKey(ks) IN 1 + Size(tr.items[k]) + Sum(ks \ {k})
         IN Sum(DOMAIN tr.items)

RECURSIVE Shapes(_)
Shapes(n) ==
    IF n = 0 THEN {[t |-> "map", items |-> Empty]}
    ELSE LET sub == Shapes(n - 1) \cup {Leaf(0)}
             all == UNION {[S -> sub] : S \in SUBSET Keys}
         IN {tr \in {[t |-> "map", items |-> f] : f \in all} : Size(tr) <= n}

ArgShapes == Shapes(MaxEntries)
SelfShapes == Shapes(MaxSelfEntries)
SeqSelfShapes == Shapes(MaxSeqSelf)
Classes == {"SuperDict", "dict"}

\* Builds the literal tr in the heap: the root of class cls, nested dicts of class
\* inner, every leaf holding lv.  Yields the new heap and the value built.
RECURSIVE Alloc(_, _, _, _, _), AllocItems(_, _, _, _, _, _)
Alloc(h, tr, cls, inner, lv) ==
    IF tr.t # "map" THEN [h |-> h, v |-> lv]
    ELSE LET id == Len(h) + 1
             h1 == Append(h, [cls |-> cls, items |-> Empty])
         IN [h |-> AllocItems(h1, id, tr.items, DOMAIN tr.items, inner, lv), v |-> Ref(id)]
AllocItems(h, id, items, ks, inner, lv) ==
    IF ks = {} THEN h
    ELSE LET k == PickKey(ks)
             r == Alloc(h, items[k], inner, inner, lv)
         IN AllocItems(SetItem(r.h, id, k, r.v), id, items, ks \ {k}, inner, lv)

-----------------------------------------------------------------------------
(* SuperDict.update, dict.update *)

\* The builtin dict.update(other): every entry of other is stored, no recursion.
DictUpdate(h, self, other) == [h EXCEPT ![self].items = Overlay(@, other)]

\* Line 287-289: the entry is stored rather than merged.
Replaces(h, self, k, v) ==
    \/ k \notin DOMAIN h[self].items
    \/ ~IsDict(h, h[self].items[k])
    \/ ~IsDict(h, v)

\* SuperDict.update's loop over other.items(), and the dispatch of self[k].update(v)
\* on the class of self[k].
RECURSIVE UpdateLoop(_, _, _, _), MethodUpdate(_, _, _)
UpdateLoop(h, self, other, ks) ==
    IF ks = {} THEN h
    ELSE LET k == PickKey(ks)
             v == other[k]
             h2 == IF Replaces(h, self, k, v)
                   THEN SetItem(h, self, k, v)
                   ELSE MethodUpdate(h, h[self].items[k].v, h[v.v].items)
         IN UpdateLoop(h2, self, other, ks \ {k})
MethodUpdate(h, self, other) ==
    IF h[self].cls = "SuperDict"
    THEN UpdateLoop(h, self, other, DOMAIN other)
    ELSE DictUpdate(h, self, other)

\* update rejecting a positional mapping given together with keyword overrides
UpdateRaises_conflict(npos, kw) == npos > 1 \/ (npos = 1 /\ kw # Empty)

\* Line 282: the only argument check of update.
UpdateRaises(npos, kw) == npos > 1

\* update ending with "return self"
UpdateReturn_self(self) == Ref(self)

\* update has no return statement.
UpdateReturn(self) == NoneV

\* other = {}; other.update(args[0]); other.update(kwargs)
UpdateOther(h, pos, kw) ==
    IF Len(pos) = 0 THEN kw ELSE Overlay(h[pos[1]].items, kw)

\* self.update(*pos, **kw): pos the heap indices of the positional mappings.
Update(h, self, pos, kw) ==
    IF UpdateRaises(Len(pos), kw)
    THEN [h |-> h, ret |-> NoneV, err |-> "TypeError"]
    ELSE LET other == UpdateOther(h, pos, kw)
         IN [h |-> UpdateLoop(h, self, other, DOMAIN other),
             ret |-> UpdateReturn(self), err |-> ""]

-----------------------------------------------------------------------------
(* SuperDict.from_dict, SuperDict._update *)

\* from_dict copying the top level only
FromDictRecurses_shallow(h, v) == FALSE

\* from_dict's recursion into the values of the copy.
FromDictRecurses(h, v) == IsDict(h, v)

\* cls.from_dict(data): a new SuperDict holding data's entries, every value that is
\* a dict converted in turn.  Yields the new heap and the value returned.
RECURSIVE FromDict(_, _), FromDictItems(_, _, _)
FromDict(h, data) ==
    IF ~IsDict(h, data) THEN [h |-> h, v |-> data]
    ELSE LET id == Len(h) + 1
             h1 == Append(h, [cls |-> "SuperDict", items |-> h[data.v].items])
         IN [h |-> FromDictItems(h1, id, DOMAIN h1[id].items), v |-> Ref(id)]
FromDictItems(h, id, ks) ==
    IF ks = {} THEN h
    ELSE LET k == PickKey(ks)
             r == IF FromDictRecurses(h, h[id].items[k])
                  THEN FromDict(h, h[id].items[k])
                  ELSE [h |-> h, v |-> h[id].items[k]]
         IN FromDictItems(SetItem(r.h, id, k, r.v), id, ks \ {k})

\* self._update(dict)
UnderUpdate(h, self, other) ==
    LET temp == FromDict(h, Ref(self))
        u == Update(temp.h, temp.v.v, <<other>>, Empty)
    IN [h |-> u.h, ret |-> temp.v, err |-> u.err]

-----------------------------------------------------------------------------
(* SuperDict.set_m, SuperDict.get_m *)

\* set_m putting a new SuperDict at every intermediate level
SetMCreates_always(h, self, elem) == TRUE

\* Line 114: the intermediate level is replaced by a new SuperDict.
SetMCreates(h, self, elem) ==
    elem \notin DOMAIN h[self].items \/ ~IsSuperDict(h, h[self].items[elem])

\* The heap after self.set_m(*path, value=value), Len(path) >= 1.
RECURSIVE SetMHeap(_, _, _, _)
SetMHeap(h, self, path, value) ==
    LET elem == path[1] IN
    IF Len(path) = 1 THEN SetItem(h, self, elem, value)
    ELSE LET h1 == IF SetMCreates(h, self, elem)
                   THEN SetItem(Append(h, [cls |-> "SuperDict", items |-> Empty]),
                                self, elem, Ref(Len(h) + 1))
                   ELSE h
         IN SetMHeap(h1, h1[self].items[elem].v, Tail(path), value)

\* Lines 112 and 117: return self.
SetMReturn(self) == Ref(self)

\* self.set_m(*path, value=value); args[0] of an empty args raises IndexError.
SetM(h, self, path, value) ==
    IF Len(path) = 0
    THEN [h |-> h, ret |-> NoneV, err |-> "IndexError"]
    ELSE [h |-> SetMHeap(h, self, path, value), ret |-> SetMReturn(self), err |-> ""]

\* d[i] for a d that is no dict: a scalar is not subscriptable.
GetMScalarStep(d, i) == [ret |-> NoneV, err |-> "TypeError"]

\* self.get_m(*path): only KeyError is caught.
RECURSIVE GetMFrom(_, _, _)
GetMFrom(h, d, path) ==
    IF Len(path) = 0 THEN [ret |-> d, err |-> ""]
    ELSE IF ~IsDict(h, d) THEN GetMScalarStep(d, path[1])
    ELSE IF path[1] \notin DOMAIN h[d.v].items THEN [ret |-> NoneV, err |-> ""]
    ELSE GetMFrom(h, h[d.v].items[path[1]], Tail(path))

GetM(h, self, path) == GetMFrom(h, Ref(self), path)

-----------------------------------------------------------------------------
(* Calls on a nested mapping *)

SelfLeaf == Leaf(1)    \* the leaves of the initial receiver
ArgLeaf(i) == Leaf(i + 1) \* the leaves of the i-th argument mapping
SetValue == Leaf(7)    \* the value of a set_m call
KwValue == Leaf(9)     \* the value of a keyword override

Paths == UNION {[1..n -> Keys] : n \in 0..MaxPath}

Kwargs == {Empty, [k \in {Str(<<"x">>)} |-> KwValue]}

Call(name, self, path, npos, kw) ==
    [name |-> name, recv |-> self, path |-> path, npos |-> npos, kw |-> kw]

Last == ops[Len(ops)]

Called(name) == ops # <<>> /\ Last.name = name

\* The receiver SuperDict(literal): nested dicts of class inner
InitOf(shapes) ==
    \E tr \in shapes, inner \in Classes :
        LET a == Alloc(<<>>, tr, "SuperDict", inner, SelfLeaf) IN
        /\ heap = a.h
        /\ recv = a.v.v
        /\ a0 = Deep(a.h, a.v)
        /\ pre = a.h
        /\ ops = <<>>
        /\ ret = NoneV
        /\ err = ""
        /\ args = <<>>
        /\ snaps = <<>>
        /\ m = <<>>
        /\ q = <<>>
        /\ out = Empty
        /\ listed = {}

\* recv.update(*pos, **kw) with npos positional mappings, each the literal tr with
\* dicts of class cls
CallUpdate(npos, kw, cls, tr) ==
    LET b == Alloc(heap, tr, cls, cls, ArgLeaf(Len(args) + 1))
        h0 == IF npos = 0 THEN heap ELSE b.h
        pos == [i \in 1..npos |-> b.v.v]
        r == Update(h0, recv, pos, kw)
    IN /\ heap' = r.h
       /\ pre' = h0
       /\ ret' = r.ret
       /\ err' = r.err
       /\ ops' = Append(ops, Call("update", recv, <<>>, npos, kw))
       /\ args' = IF npos = 0 THEN args ELSE Append(args, b.v.v)
       /\ snaps' = IF npos = 0 THEN snaps ELSE Append(snaps, Deep(b.h, b.v))
       /\ UNCHANGED <<recv, a0, m, q, out, listed>>

\* r = recv._update(other), other the literal tr; the calls that follow are made on r
CallUnderUpdate(cls, tr) ==
    LET b == Alloc(heap, tr, cls, cls, ArgLeaf(Len(args) + 1))
        r == UnderUpdate(b.h, recv, b.v.v)
    IN /\ heap' = r.h
       /\ pre' = b.h
       /\ ret' = r.ret
       /\ err' = r.err
       /\ ops' = Append(ops, Call("_update", recv, <<>>, 1, Empty))
       /\ args' = Append(args, b.v.v)
       /\ snaps' = Append(snaps, Deep(b.h, b.v))
       /\ recv' = r.ret.v
       /\ UNCHANGED <<a0, m, q, out, listed>>

\* recv.set_m(*path, value=SetValue)
CallSetM(path) ==
    LET r == SetM(heap, recv, path, SetValue)
    IN /\ heap' = r.h
       /\ pre' = heap
       /\ ret' = r.ret
       /\ err' = r.err
       /\ ops' = Append(ops, Call("set_m", recv, path, 0, Empty))
       /\ UNCHANGED <<recv, a0, args, snaps, m, q, out, listed>>

\* recv.get_m(*path)
CallGetM(path) ==
    LET r == GetM(heap, recv, path)
    IN /\ pre' = heap
       /\ ret' = r.ret
       /\ err' = r.err
       /\ ops' = Append(ops, Call("get_m", recv, path, 0, Empty))
       /\ UNCHANGED <<heap, recv, a0, args, snaps, m, q, out, listed>>

(* One call on a newly constructed receiver *)

InitNested == InitOf(SelfShapes)

DoUpdate ==
    /\ ops = <<>>
    /\ \E npos \in 0..2, kw \in Kwargs, cls \in Classes :
       \E tr \in IF npos = 1 THEN ArgShapes ELSE Shapes(0) :
           CallUpdate(npos, kw, cls, tr)

DoUnderUpdate ==
    /\ ops = <<>>
    /\ \E tr \in ArgShapes, cls \in Classes : CallUnderUpdate(cls, tr)

DoSetM ==
    /\ ops = <<>>
    /\ \E path \in Paths : CallSetM(path)

DoGetM ==
    /\ ops = <<>>
    /\ \E path \in Paths : CallGetM(path)

Next == DoUpdate \/ DoUnderUpdate \/ DoSetM \/ DoGetM

Spec == InitNested /\ [][Next]_vars

(* A sequence of calls that merge into, copy or set the receiver *)

InitSeq == InitOf(SeqSelfShapes)

SeqUpdate ==
    /\ Len(ops) < MaxOps
    /\ \E tr \in ArgShapes, cls \in Classes : CallUpdate(1, Empty, cls, tr)

SeqUnderUpdate ==
    /\ Len(ops) < MaxOps
    /\ \E tr \in ArgShapes, cls \in Classes : CallUnderUpdate(cls, tr)

SeqSetM ==
    /\ Len(ops) < MaxOps
    /\ \E path \in Paths : CallSetM(path)

NextSeq == SeqUpdate \/ SeqUnderUpdate \/ SeqSetM

SpecSeq == InitSeq /\ [][NextSeq]_vars

-----------------------------------------------------------------------------
(* Properties of the nested calls *)

\* The reference deep merge of two deep values: recursive where both sides hold a
\* mapping, the later value otherwise.
RECURSIVE RefMerge(_, _)
RefMerge(s, o) ==
    [t |-> "map",
     items |-> [k \in (DOMAIN s.items) \cup (DOMAIN o.items) |->
                  IF k \notin DOMAIN o.items THEN s.items[k]
                  ELSE IF k \in DOMAIN s.items /\ s.items[k].t = "map" /\ o.items[k].t = "map"
                       THEN RefMerge(s.items[k], o.items[k])
                       ELSE o.items[k]]]

\* The value a path leads to in a deep value, None where a step does not exist.
RECURSIVE PathValue(_, _)
PathValue(tr, path) ==
    IF Len(path) = 0 THEN tr
    ELSE IF tr.t # "map" THEN NoneV
    ELSE IF path[1] \notin DOMAIN tr.items THEN NoneV
    ELSE PathValue(tr.items[path[1]], Tail(path))

LastArg == args[Len(args)]

\* C2: after a.update(b) followed by a.update(c), a equals the reference deep merge
\* of a, b and c in that order.
C2_SequentialDeepMerge ==
    (Len(ops) = 2 /\ ops[1].name = "update" /\ ops[2].name = "update")
        => Deep(heap, Ref(recv)) = RefMerge(RefMerge(a0, snaps[1]), snaps[2])

\* C3: self._update(other) raises nothing, leaves every object that existed before
\* the call (self at every nesting level among them) as it was, and returns a new
\* SuperDict whose deep value is the reference deep merge of self and other.
C3_MergedCopyNonMutating ==
    Called("_update") =>
        /\ err = ""
        /\ \A i \in 1..Len(pre) : heap[i] = pre[i]
        /\ ret.t = "ref" /\ ret.v > Len(pre)
        /\ heap[ret.v].cls = "SuperDict"
        /\ Deep(heap, ret) = RefMerge(Deep(pre, Ref(Last.recv)), Deep(pre, Ref(LastArg)))

\* C3 witness: a merged copy where self and other both hold a mapping under one key
\* and other's is not empty, so that the merge went into a nested level.
C3_Witness ==
    /\ Called("_update")
    /\ \E k \in (DOMAIN a0.items) \cap (DOMAIN snaps[1].items) :
         /\ a0.items[k].t = "map"
         /\ snaps[1].items[k].t = "map"
         /\ snaps[1].items[k].items # Empty

\* C4 as claimed: update given a positional mapping together with keyword overrides
\* fails and leaves self unchanged.
C4_PositionalWithKeywordsFails ==
    (Called("update") /\ Last.npos = 1 /\ Last.kw # Empty)
        => (err # "" /\ heap = pre)

\* C4 amended: update fails, with TypeError and self unchanged, exactly when it is
\* given more than one positional argument; given one positional mapping and keyword
\* overrides it succeeds, every key of the positional mapping and every keyword ends
\* up in self, and a keyword whose value is no mapping holds exactly that value.
C4_UpdateArguments ==
    Called("update") =>
        /\ (err = "TypeError") <=> (Last.npos > 1)
        /\ err \in {"", "TypeError"}
        /\ err # "" => heap = pre
        /\ err = "" =>
             /\ \A k \in DOMAIN Last.kw : heap[Last.recv].items[k] = Last.kw[k]
             /\ Last.npos = 1 =>
                  (DOMAIN pre[LastArg].items) \subseteq (DOMAIN heap[Last.recv].items)

\* C4 witness: a successful update with a positional mapping and a keyword override
\* of one of its keys.
C4_Witness ==
    /\ Called("update") /\ Last.npos = 1 /\ err = ""
    /\ \E k \in DOMAIN Last.kw : k \in DOMAIN pre[LastArg].items

\* C5: get_m never fails, and returns the value the path leads to, None where a
\* step is absent or is applied to a scalar.
C5_GetPathNeverFails ==
    Called("get_m") =>
        /\ err = ""
        /\ Deep(heap, ret) = PathValue(Deep(heap, Ref(Last.recv)), Last.path)

\* C8 as claimed: set_m and update both return the receiver.
C8_MutatorsReturnSelf ==
    ((Called("set_m") \/ Called("update")) /\ err = "") => ret = Ref(Last.recv)

\* C8 amended: set_m with at least one path key stores the value at the path in the
\* receiver and returns the receiver; update merges into the receiver in place and
\* returns None.
C8_SetMReturnsSelfUpdateReturnsNone ==
    /\ (Called("set_m") /\ Last.path # <<>>) =>
          /\ err = ""
          /\ ret = Ref(Last.recv)
          /\ GetM(heap, Last.recv, Last.path) = [ret |-> SetValue, err |-> ""]
    /\ (Called("update") /\ err = "") =>
          /\ ret = NoneV
          /\ \A k \in DOMAIN UpdateOther(pre, [i \in 1..Last.npos |-> LastArg], Last.kw) :
                k \in DOMAIN heap[Last.recv].items

\* C8 witness: an update that changed the receiver object itself.
C8_Witness ==
    /\ Called("update") /\ err = ""
    /\ heap[Last.recv] # pre[Last.recv]

\* C10: the mappings passed as arguments keep the deep values they were passed with,
\* whatever is called on the receiver afterwards.
C10_ArgumentsUnaliased ==
    \A i \in 1..Len(args) : Deep(heap, Ref(args[i])) = snaps[i]

-----------------------------------------------------------------------------
(* Flat mappings: SuperDict.to_dictdict, SuperDict.dicts_to_tup, SuperDict.to_dictup *)

\* A key of a flat mapping: a tuple of scalars, or one scalar (el of length 1).
TupKey(el) == [tup |-> TRUE, el |-> el]
ScalarKey(x) == [tup |-> FALSE, el |-> <<x>>]

Range(f) == {f[i] : i \in DOMAIN f}

\* The entries of a flat mapping, as a set of <<key, value>> pairs
Entries(mp) == {<<mp[i].k, mp[i].v>> : i \in DOMAIN mp}

MapKeys(mp) == {mp[i].k : i \in DOMAIN mp}

\* self[k] of a flat mapping
Lookup(mp, k) == mp[CHOOSE i \in DOMAIN mp : mp[i].k = k].v

\* Line 93, the unpacking *tup: a tuple yields its elements, a string its characters,
\* a number is not iterable.
Unpack(key) ==
    IF key.tup THEN [path |-> key.el, err |-> ""]
    ELSE IF key.el[1].ty = "str"
         THEN [path |-> [i \in 1..Len(key.el[1].s) |-> Str(<<key.el[1].s[i]>>)], err |-> ""]
         ELSE [path |-> <<>>, err |-> "TypeError"]

\* to_dictdict's loop over self.items() from entry i on, root the new dictdict
RECURSIVE ToDictdictLoop(_, _, _, _)
ToDictdictLoop(h, root, mp, i) ==
    IF i > Len(mp) THEN [h |-> h, ret |-> Ref(root), err |-> ""]
    ELSE LET u == Unpack(mp[i].k)
             r == SetM(h, root, u.path, mp[i].v)
         IN IF u.err # "" THEN [h |-> h, ret |-> NoneV, err |-> u.err]
            ELSE IF r.err # "" THEN [h |-> r.h, ret |-> NoneV, err |-> r.err]
            ELSE ToDictdictLoop(r.h, root, mp, i + 1)

\* self.to_dictdict()
ToDictdict(h, mp) ==
    ToDictdictLoop(Append(h, [cls |-> "SuperDict", items |-> Empty]), Len(h) + 1, mp, 1)

\* Line 129: content is stored under the path walked so far.
IsLeaf(h, content) == ~IsDict(h, content)

\* acc.dicts_to_tup(keys, content), acc the flat mapping under construction: a
\* function from tuple keys to values
RECURSIVE DictsToTup(_, _, _, _), DictsToTupItems(_, _, _, _, _)
DictsToTup(acc, h, keys, content) ==
    IF IsLeaf(h, content) THEN Put(acc, TupKey(keys), content)
    ELSE DictsToTupItems(acc, h, keys, content, DOMAIN h[content.v].items)
DictsToTupItems(acc, h, keys, content, ks) ==
    IF ks = {} THEN acc
    ELSE LET k == PickKey(ks)
         IN DictsToTupItems(DictsToTup(acc, h, Append(keys, k), h[content.v].items[k]),
                            h, keys, content, ks \ {k})

\* self.to_dictup()
ToDictup(h, self) == DictsToTup(Empty, h, <<>>, Ref(self))

FlatEntries(f) == {<<k, f[k]>> : k \in DOMAIN f}

Atoms == {Str(<<"a">>), Str(<<"b">>)}

TupleKeys == {TupKey(el) : el \in UNION {[1..n -> Atoms] : n \in 1..MaxTupLen}}

NonTupleKeys == {ScalarKey(Str(<<"a">>)), ScalarKey(Str(<<"a", "b">>)), ScalarKey(Num(7))}

\* The flat mappings over a set of keys: distinct keys in insertion order, the
\* value of entry i being i
FlatMaps(keys) ==
    UNION {{[i \in 1..n |-> [k |-> f[i], v |-> Leaf(i)]] :
              f \in {g \in [1..n -> keys] : \A i, j \in 1..n : i # j => g[i] # g[j]}} :
           n \in 0..MaxFlat}

InitFlat(maps) ==
    /\ m \in maps
    /\ heap = <<>>
    /\ recv = 0
    /\ a0 = NoneV
    /\ pre = <<>>
    /\ ops = <<>>
    /\ ret = NoneV
    /\ err = ""
    /\ args = <<>>
    /\ snaps = <<>>
    /\ q = <<>>
    /\ out = Empty
    /\ listed = {}

InitTuples == InitFlat(FlatMaps(TupleKeys \cup NonTupleKeys))

\* nested = m.to_dictdict()
DoToDictdict ==
    /\ ops = <<>>
    /\ LET r == ToDictdict(heap, m)
       IN /\ heap' = r.h
          /\ pre' = heap
          /\ ret' = r.ret
          /\ err' = r.err
          /\ ops' = Append(ops, Call("to_dictdict", 0, <<>>, 0, Empty))
          /\ recv' = IF r.err = "" THEN r.ret.v ELSE recv
          /\ UNCHANGED <<a0, args, snaps, m, q, out, listed>>

\* nested.to_dictup()
DoToDictup ==
    /\ Called("to_dictdict")
    /\ err = ""
    /\ out' = ToDictup(heap, recv)
    /\ pre' = heap
    /\ ret' = NoneV
    /\ ops' = Append(ops, Call("to_dictup", recv, <<>>, 0, Empty))
    /\ UNCHANGED <<heap, recv, err, a0, args, snaps, m, q, listed>>

NextTuples == DoToDictdict \/ DoToDictup

SpecTuples == InitTuples /\ [][NextTuples]_vars

(* Properties of the flat conversions *)

AllTupleKeys == \A i \in DOMAIN m : m[i].k.tup

IsProperPrefix(s, t) == Len(s) < Len(t) /\ \A i \in 1..Len(s) : s[i] = t[i]

PrefixFree == \A i, j \in DOMAIN m : ~IsProperPrefix(m[i].k.el, m[j].k.el)

\* C1 as claimed: for every mapping with tuple keys, keys that are a prefix of
\* another included, to_dictdict then to_dictup gives back the entries of m.
C1_RoundTrip ==
    (Called("to_dictup") /\ AllTupleKeys) => FlatEntries(out) = Entries(m)

\* C1 amended: the round trip gives back the entries of m when the keys are tuples
\* none of which is a proper prefix of another.
C1_RoundTripPrefixFree ==
    (Called("to_dictup") /\ AllTupleKeys /\ PrefixFree) => FlatEntries(out) = Entries(m)

\* C1 witness: a round trip of a prefix-free mapping with two tuple keys of two
\* elements that share their first element, so that both went into one nested level.
C1_Witness ==
    /\ Called("to_dictup") /\ AllTupleKeys /\ PrefixFree
    /\ \E i, j \in DOMAIN m :
         /\ i # j
         /\ Len(m[i].k.el) > 1 /\ Len(m[j].k.el) > 1
         /\ m[i].k.el[1] = m[j].k.el[1]

\* C9: to_dictdict keeps every non-tuple key k (a string of any length, a number)
\* as a top-level entry holding m[k]; stated for the keys that no tuple key of m
\* starts with, so that no later write to the same path is involved.
C9_NonTupleKeysStayTopLevel ==
    Called("to_dictdict") =>
        \A i \in DOMAIN m :
            (/\ ~m[i].k.tup
             /\ \A j \in DOMAIN m : m[j].k.tup => m[j].k.el[1] # m[i].k.el[1])
            => /\ err = ""
               /\ ret.t = "ref"
               /\ m[i].k.el[1] \in DOMAIN heap[ret.v].items
               /\ heap[ret.v].items[m[i].k.el[1]] = m[i].v

-----------------------------------------------------------------------------
(* SuperDict.filter *)

\* numpy's setdiff1d(ar1, ar2): the unique values of ar1 that are not in ar2, both
\* arguments converted to arrays and flattened first.  A list of scalars is its own
\* flattening; a list of tuples of one length becomes a 2-d array, whose flattening
\* holds the tuples' elements.  (Lists mixing scalars and tuples, or tuples of
\* several lengths, are not modelled: what numpy makes of them depends on its
\* version.)
Flatten(ar) == UNION {Range(ar[i].el) : i \in DOMAIN ar}

Setdiff1d(ar1, ar2) == {ScalarKey(x) : x \in Flatten(ar1) \ Flatten(ar2)}

\* Line 71: anything but a list is wrapped in one.
Wrap(query) == IF query.isList THEN query.indices ELSE <<query.indices>>

\* {k: self[k] for k in indices}, with its condition "if k in self" when guarded:
\* the first k that is no key raises KeyError(k)
Comprehension(mp, indices, guarded) ==
    LET missing == {i \in DOMAIN indices : indices[i] \notin MapKeys(mp)}
        first == CHOOSE i \in missing : \A j \in missing : i <= j
    IN IF ~guarded /\ missing # {}
       THEN [out |-> Empty, err |-> "KeyError", listed |-> {indices[first]}]
       ELSE [out |-> [k \in Range(indices) \cap MapKeys(mp) |-> Lookup(mp, k)],
             err |-> "", listed |-> {}]

\* Lines 75-77: the keys the check finds bad
BadElem(mp, indices) == Setdiff1d(indices, [i \in DOMAIN mp |-> mp[i].k])

\* self.filter(indices, check)
Filter(mp, query) ==
    LET indices == Wrap(query)
        bad == BadElem(mp, indices)
    IN IF ~query.check THEN Comprehension(mp, indices, TRUE)
       ELSE IF bad # {} THEN [out |-> Empty, err |-> "KeyError", listed |-> bad]
       ELSE Comprehension(mp, indices, FALSE)

\* Keys of one kind: scalars, or tuples of one length
KeyKinds ==
    {{ScalarKey(x) : x \in Atoms}} \cup
    {{TupKey(el) : el \in [1..n -> Atoms]} : n \in 1..MaxTupLen}

Queries ==
    UNION {
        {[indices |-> ix, isList |-> TRUE, check |-> c] :
            ix \in UNION {[1..n -> S] : n \in 0..MaxIdx}, c \in BOOLEAN}
        \cup {[indices |-> k, isList |-> FALSE, check |-> c] : k \in S, c \in BOOLEAN}
        : S \in KeyKinds}

InitFilter == InitFlat(UNION {FlatMaps(S) : S \in KeyKinds})

\* m.filter(indices, check)
DoFilter ==
    /\ ops = <<>>
    /\ \E query \in Queries :
        LET r == Filter(m, query)
        IN /\ q' = query
           /\ out' = r.out
           /\ err' = r.err
           /\ listed' = r.listed
           /\ ops' = Append(ops, Call("filter", 0, <<>>, 0, Empty))
           /\ UNCHANGED <<heap, recv, pre, ret, a0, args, snaps, m>>

NextFilter == DoFilter

SpecFilter == InitFilter /\ [][NextFilter]_vars

\* The requested keys: the list given, or the one key given in its place
Requested == IF q.isList THEN Range(q.indices) ELSE {q.indices}

\* C6: with check, filter fails with a KeyError naming exactly the requested keys that
\* are absent if there is one, and otherwise returns exactly the requested keys with
\* their values; without check it never fails and returns the requested keys that
\* are present, with their values.
C6_FilterChecksKeys ==
    Called("filter") =>
        LET absent == Requested \ MapKeys(m)
            kept == [k \in Requested \cap MapKeys(m) |-> Lookup(m, k)]
        IN /\ (q.check /\ absent # {}) => (err = "KeyError" /\ listed = absent)
           /\ (q.check /\ absent = {}) => (err = "" /\ out = kept)
           /\ ~q.check => (err = "" /\ out = kept)

\* C6 restricted to scalar keys, where the flattening changes nothing
C6_ScalarKeysOnly ==
    (Called("filter") /\ (\A k \in Requested \cup MapKeys(m) : ~k.tup))
        => C6_FilterChecksKeys

-----------------------------------------------------------------------------
(* SuperDict.list_reverse *)

Elements == {Str(<<"a">>), Str(<<"b">>)}

ListKeys == {ScalarKey(Str(<<"x">>)), ScalarKey(Str(<<"y">>))}

Lists == UNION {[1..n -> Elements] : n \in 0..MaxList}

\* The mappings of list values: distinct keys in insertion order
ListMaps ==
    UNION {{[i \in 1..n |-> [k |-> f[i], v |-> l[i]]] :
              f \in {g \in [1..n -> ListKeys] : \A i, j \in 1..n : i # j => g[i] # g[j]},
              l \in [1..n -> Lists]} :
           n \in 0..Cardinality(ListKeys)}

\* Line 156 for the elements of v from the j-th on: dict_out[el].append(k)
RECURSIVE AppendKey(_, _, _, _)
AppendKey(d, k, v, j) ==
    IF j > Len(v) THEN d
    ELSE AppendKey([d EXCEPT ![v[j]] = Append(@, k)], k, v, j + 1)

\* Lines 154-156 from entry i on
RECURSIVE ReverseLoop(_, _, _)
ReverseLoop(d, mp, i) ==
    IF i > Len(mp) THEN d
    ELSE ReverseLoop(AppendKey(d, mp[i].k, mp[i].v, 1), mp, i + 1)

\* self.list_reverse()
ListReverse(mp) ==
    LET new_keys == UNION {Range(mp[i].v) : i \in DOMAIN mp}
    IN ReverseLoop([e \in new_keys |-> <<>>], mp, 1)

InitReverse == InitFlat(ListMaps)

\* m.list_reverse()
DoListReverse ==
    /\ ops = <<>>
    /\ out' = ListReverse(m)
    /\ ops' = Append(ops, Call("list_reverse", 0, <<>>, 0, Empty))
    /\ UNCHANGED <<heap, recv, pre, ret, err, a0, args, snaps, m, q, listed>>

NextReverse == DoListReverse

SpecReverse == InitReverse /\ [][NextReverse]_vars

\* C7: the keys of the result are the elements of all the lists, and the list of an
\* element e holds, once each and in source order, the keys whose list contains e.
C7_InvertListValues ==
    Called("list_reverse") =>
        /\ DOMAIN out = UNION {Range(m[i].v) : i \in DOMAIN m}
        /\ \A e \in DOMAIN out :
             LET Holds(k) == e \in Range(Lookup(m, k))
             IN out[e] = SelectSeq([i \in DOMAIN m |-> m[i].k], Holds)

\* C7 restricted to lists without repeated elements
C7_NoRepeats ==
    (\A i \in DOMAIN m : Cardinality(Range(m[i].v)) = Len(m[i].v)) => C7_InvertListValues

====
